---- MODULE Spec2Model ----
(***************************************************************************)
(* chrisbuetti/gspread-wrapper: gspread_function, the retrying call        *)
(* wrapper of src/gspread_wrapper/gspread_utils.py, and the GSPREAD        *)
(* methods that issue their remote calls through it.                       *)
(*                                                                         *)
(* A call of gspread_function is a frame on a call stack; the operation f  *)
(* it is given is either a remote call, whose outcome the environment      *)
(* chooses at every invocation, or a lambda that itself calls              *)
(* gspread_function (GSPREAD.__init__), which pushes another frame.        *)
(***************************************************************************)
EXTENDS Naturals, Integers, Sequences, FiniteSets

VARIABLES
    stack,        \* the call stack: frames of GSPREAD methods and of gspread_function
    remoteCalls,  \* invocations of the remote client since the outermost
                  \* gspread_function call in progress began
    backoffs,     \* sleep() calls since then
    issued,       \* the gspread_function calls made since a caller called a
                  \* GSPREAD method, in order, each with how it ended
    prev,         \* how the gspread_function call before this one ended
    perClass,     \* retryable failures of this call, by branch
    threads,      \* the gspread_function calls of the threads that made one
    conv          \* the _number_to_column call in progress

\* the variables the specification at hand leaves alone
others == <<prev, perClass, threads, conv>>

vars == <<stack, remoteCalls, backoffs, issued, prev, perClass, threads, conv>>

----------------------------------------------------------------------------
(* Bounds of the model *)

\* most text fragments one error's traceback is made of
MaxFrags == 2

\* most data rows of the table given to replace_worksheet_with_df
MaxRows == 1

----------------------------------------------------------------------------
(* Errors and their text *)

\* The pieces of text an error's message and traceback are made of: the
\* substrings gspread_function searches for, spellings of them that differ
\* in letter case only, and text it does not search for.
Fragments ==
    { "502", "Server Error", "server error",
      "Quota exceeded", "quota exceeded",
      "Read requests per minute per user",
      "the service is currently unavailable",
      "The Service Is Currently Unavailable",
      "Invalid range" }

\* str.lower() on one fragment
LowerFragment(s) ==
    CASE s = "Server Error" -> "server error"
      [] s = "Quota exceeded" -> "quota exceeded"
      [] s = "Read requests per minute per user" -> "read requests per minute per user"
      [] s = "The Service Is Currently Unavailable" -> "the service is currently unavailable"
      [] s = "Invalid range" -> "invalid range"
      [] OTHER -> s

\* tb.lower()
Lower(text) == { LowerFragment(s) : s \in text }

\* `needle in text`
Contains(text, needle) == needle \in text

\* str(e) and traceback.format_exc(): the traceback ends with the line
\* "<type>: <str(e)>", so it holds all of the message, and before it the
\* frames of the stack (file names, line numbers, source lines).
ErrorTexts ==
    UNION { { [msg |-> m, tb |-> t] : m \in SUBSET t } :
            t \in { s \in SUBSET Fragments : Cardinality(s) <= MaxFrags } }

\* requests.exceptions.JSONDecodeError, gspread.client.APIError, any other type
ErrorKinds == { "JSONDecodeError", "APIError", "OtherError" }

\* results of the operation in the retry core's specification
Values == { 42, 7 }

None == [kind |-> "none", val |-> 0, msg |-> {}, tb |-> {}]

Ok(v) == [kind |-> "ok", val |-> v, msg |-> {}, tb |-> {}]

Err(k, x) == [kind |-> k, val |-> 0, msg |-> x.msg, tb |-> x.tb]

\* what one invocation of a remote operation can do
Outcomes ==
    { Ok(v) : v \in Values } \cup
    { Err(k, x) : k \in ErrorKinds, x \in ErrorTexts }

----------------------------------------------------------------------------
(* gspread_function *)

counter_threshold == 9

SleepSeconds == 30

\* Classify with the service-unavailable text searched in tb, not tb.lower()
Classify_CaseSensitive(e) ==
    IF Contains(e.msg, "502") \/ Contains(e.tb, "Server Error")
        THEN "TRANSIENT_SERVER_502"
    ELSE IF Contains(e.tb, "Quota exceeded")
              \/ Contains(e.tb, "Read requests per minute per user")
        THEN "TRANSIENT_RATE_LIMIT"
    ELSE IF Contains(e.tb, "the service is currently unavailable")
        THEN "TRANSIENT_UNAVAILABLE"
    ELSE "FATAL"

\* lines 39-47: the branch taken for a caught APIError
Classify(e) ==
    IF Contains(e.msg, "502") \/ Contains(e.tb, "Server Error")
        THEN "TRANSIENT_SERVER_502"
    ELSE IF Contains(e.tb, "Quota exceeded")
              \/ Contains(e.tb, "Read requests per minute per user")
        THEN "TRANSIENT_RATE_LIMIT"
    ELSE IF Contains(Lower(e.tb), "the service is currently unavailable")
        THEN "TRANSIENT_UNAVAILABLE"
    ELSE "FATAL"

\* the text print() is given on each branch
LogText(class) ==
    CASE class = "TRANSIENT_PARSE" -> "JSONDecodeError. Sleeping for 30 seconds."
      [] class = "TRANSIENT_SERVER_502" -> "502 Server Error. Retrying"
      [] class = "TRANSIENT_RATE_LIMIT" -> "Rate limit hit. Retrying"
      [] class = "TRANSIENT_UNAVAILABLE" -> "Service unavailable. Retrying"
      [] class = "FATAL" -> "traceback"
      [] OTHER -> "Final attempt after hitting retry threshold."

NoLog == [text |-> "", n |-> 0]

\* print(...): the frame's count of lines printed and the last of them
LogLine(fr, text, n) ==
    [fr EXCEPT !.logs = @ + 1, !.lastLog = [text |-> text, n |-> n]]

\* lines 28-29: the state of a fresh call.  counter is the code's, e the
\* exception being handled, out what the call returned or raised; calls,
\* failed, transients, sleeps, slept, logs, lastLog, lastOut and via record
\* what the call has done: invocations of f, those that raised, those that
\* raised a retryable error, sleep() calls and their total length, print()
\* calls and the last line printed, the outcome of the latest invocation,
\* and whether the call ended in the loop or in the final attempt.
NewFrame(f) ==
    [kind |-> "exec",
     f |-> f, counter |-> 0, pc |-> "while", e |-> None, out |-> None,
     calls |-> 0, failed |-> 0, transients |-> 0, sleeps |-> 0, slept |-> 0,
     logs |-> 0, lastLog |-> NoLog, lastOut |-> None, via |-> "none"]

\* WhileTest with `counter <= counter_threshold`
WhileTest_OffByOne(fr) ==
    IF fr.counter <= counter_threshold
        THEN [fr EXCEPT !.pc = "try"]
        ELSE [LogLine(fr, LogText("FINAL"), 0) EXCEPT !.pc = "final"]

\* WhileTest with the last error raised when the loop is exhausted, in
\* place of the final attempt
WhileTest_NoFinal(fr) ==
    IF fr.counter < counter_threshold
        THEN [fr EXCEPT !.pc = "try"]
        ELSE [fr EXCEPT !.pc = "raised", !.out = fr.lastOut, !.via = "final"]

\* line 31, and line 51 when the test fails
WhileTest(fr) ==
    IF fr.counter < counter_threshold
        THEN [fr EXCEPT !.pc = "try"]
        ELSE [LogLine(fr, LogText("FINAL"), 0) EXCEPT !.pc = "final"]

\* an outcome the except clauses of lines 34-44 retry
TransientOutcome(o) ==
    \/ o.kind = "JSONDecodeError"
    \/ o.kind = "APIError" /\ Classify(o) # "FATAL"

\* bookkeeping of one invocation of f that ended with outcome o
Invoked(fr, o) ==
    [fr EXCEPT !.calls = @ + 1, !.lastOut = o,
               !.failed = IF o.kind = "ok" THEN @ ELSE @ + 1,
               !.transients = IF TransientOutcome(o) THEN @ + 1 ELSE @]

\* TryOutcome with `except Exception` in place of `except APIError`
TryOutcome_CatchAll(fr, o) ==
    LET g == Invoked(fr, o) IN
    CASE o.kind = "ok" -> [g EXCEPT !.pc = "returned", !.out = o, !.via = "loop"]
      [] o.kind = "JSONDecodeError" -> [g EXCEPT !.pc = "except_json", !.e = o]
      [] OTHER -> [g EXCEPT !.pc = "except_api", !.e = o]

\* TryOutcome with `f()` in place of `return f()`
TryOutcome_NoReturn(fr, o) ==
    LET g == Invoked(fr, o) IN
    CASE o.kind = "ok" -> [g EXCEPT !.pc = "incr"]
      [] o.kind = "JSONDecodeError" -> [g EXCEPT !.pc = "except_json", !.e = o]
      [] o.kind = "APIError" -> [g EXCEPT !.pc = "except_api", !.e = o]
      [] OTHER -> [g EXCEPT !.pc = "raised", !.out = o, !.via = "loop"]

\* lines 32-37: f() inside the try block ended with outcome o
TryOutcome(fr, o) ==
    LET g == Invoked(fr, o) IN
    CASE o.kind = "ok" -> [g EXCEPT !.pc = "returned", !.out = o, !.via = "loop"]
      [] o.kind = "JSONDecodeError" -> [g EXCEPT !.pc = "except_json", !.e = o]
      [] o.kind = "APIError" -> [g EXCEPT !.pc = "except_api", !.e = o]
      [] OTHER -> [g EXCEPT !.pc = "raised", !.out = o, !.via = "loop"]

\* ExceptJSONDecodeError without its sleep(30)
ExceptJSONDecodeError_NoSleep(fr) ==
    [LogLine(fr, LogText("TRANSIENT_PARSE"), 0) EXCEPT !.pc = "incr"]

\* lines 34-35
ExceptJSONDecodeError(fr) ==
    [LogLine(fr, LogText("TRANSIENT_PARSE"), 0) EXCEPT !.pc = "sleep"]

\* ExceptAPIError without the else branch: every APIError is retried
ExceptAPIError_RetryAll(fr) ==
    [LogLine(fr, LogText(Classify(fr.e)), fr.counter + 1) EXCEPT !.pc = "sleep"]

\* ExceptAPIError with `raise RuntimeError(str(e))` in place of `raise`
ExceptAPIError_Wrap(fr) ==
    LET class == Classify(fr.e) IN
    IF class = "FATAL"
        THEN [LogLine(fr, LogText(class), 0) EXCEPT
                 !.pc = "raised", !.via = "loop",
                 !.out = [fr.e EXCEPT !.kind = "OtherError", !.tb = fr.e.msg]]
        ELSE [LogLine(fr, LogText(class), fr.counter + 1) EXCEPT !.pc = "sleep"]

\* lines 37-47
ExceptAPIError(fr) ==
    LET class == Classify(fr.e) IN
    IF class = "FATAL"
        THEN [LogLine(fr, LogText(class), 0) EXCEPT
                 !.pc = "raised", !.out = fr.e, !.via = "loop"]
        ELSE [LogLine(fr, LogText(class), fr.counter + 1) EXCEPT !.pc = "sleep"]

\* Sleep with a delay that grows with the attempt
Sleep_Backoff(fr) ==
    [fr EXCEPT !.sleeps = @ + 1, !.slept = @ + SleepSeconds * (fr.counter + 1),
               !.pc = "incr"]

\* lines 36 and 48: sleep(30)
Sleep(fr) ==
    [fr EXCEPT !.sleeps = @ + 1, !.slept = @ + SleepSeconds, !.pc = "incr"]

\* Increment without `counter += 1`
Increment_Stuck(fr) == [fr EXCEPT !.pc = "while", !.e = None]

\* Increment reached from the APIError branches only (`continue` after the
\* sleep of the JSONDecodeError branch)
Increment_ApiOnly(fr) ==
    [fr EXCEPT !.counter = IF fr.e.kind = "APIError" THEN @ + 1 ELSE @,
               !.pc = "while", !.e = None]

\* line 49
Increment(fr) ==
    [fr EXCEPT !.counter = @ + 1, !.pc = "while", !.e = None]

\* FinalOutcome with the final call inside the try block
FinalOutcome_Classified(fr, o) == TryOutcome(fr, o)

\* line 52: f() after the loop ended with outcome o
FinalOutcome(fr, o) ==
    LET g == Invoked(fr, o) IN
    [g EXCEPT !.pc = IF o.kind = "ok" THEN "returned" ELSE "raised",
              !.out = o, !.via = "final"]

----------------------------------------------------------------------------
(* The call stack *)

Top == stack[Len(stack)]

SetTop(fr) == [stack EXCEPT ![Len(stack)] = fr]

Pop == SubSeq(stack, 1, Len(stack) - 1)

Finished(fr) == fr.pc \in { "returned", "raised" }

Running == stack # <<>> /\ ~Finished(Top)

\* a gspread_function call is in progress in the frames s
InExec(s) == \E i \in DOMAIN s : s[i].kind = "exec"

\* the operation of the retry core's specification: some remote call
CoreOps == { "op" }

\* the calls of the remote client the GSPREAD methods make
ClientOps ==
    { "gc.open", "sh.worksheets", "sh.get_worksheet_by_id",
      "worksheet.clear_basic_filter", "worksheet.freeze(rows=0, cols=0)",
      "worksheet.clear", "worksheet.update", "worksheet.format",
      "worksheet.freeze(rows=1)", "sheet.get_all_values", "sheet.append_row",
      "sheet.col_values", "sheet.batch_clear", "sheet.delete_rows" }

RemoteOps == CoreOps \cup ClientOps

\* line 124: the table-to-rows conversion, given to gspread_function
LocalOps == { "df.values.tolist" }

\* line 66: the lambda that calls the method open_workbook
LambdaOps == { "lambda: self.open_workbook(workbook_name)" }

\* the method a lambda of LambdaOps calls
LambdaBody(f) == "open_workbook"

\* the workbooks the remote side may hold: the worksheets of each, in order
Workbooks ==
    << << [title |-> "sheet1", id |-> 11], [title |-> "Sheet2", id |-> 22] >>,
       << [title |-> "Data", id |-> 33] >> >>

\* str.lower() on a worksheet title or name
LowerTitle(t) ==
    CASE t = "Sheet1" -> "sheet1"
      [] t = "Sheet2" -> "sheet2"
      [] t = "Data" -> "data"
      [] t = "Missing" -> "missing"
      [] OTHER -> t

\* one error text of each branch of lines 39-47
SampleTexts ==
    { [msg |-> { "502", "Server Error" }, tb |-> { "502", "Server Error" }],
      [msg |-> { "Quota exceeded" }, tb |-> { "Quota exceeded" }],
      [msg |-> {}, tb |-> { "The Service Is Currently Unavailable" }],
      [msg |-> { "Invalid range" }, tb |-> { "Invalid range" }] }

\* the worksheet objects the remote client may hand out
Handles == { 1, 2 }

\* what a successful invocation of f returns: the worksheet listing is one
\* of Workbooks (by its index), any other result is a handle
SuccessValues(f) ==
    IF f = "sh.worksheets" THEN DOMAIN Workbooks
    ELSE IF f = "sh.get_worksheet_by_id" THEN Handles
    ELSE { 1 }

\* what one invocation of f can do when f is not a lambda over a GSPREAD method
OutcomesOf(f) ==
    IF f \in CoreOps THEN Outcomes
    ELSE { Ok(v) : v \in SuccessValues(f) }
         \cup { Err("APIError", x) : x \in SampleTexts }
         \cup { Err(k, [msg |-> {}, tb |-> {}]) : k \in { "JSONDecodeError", "OtherError" } }

----------------------------------------------------------------------------
(* _number_to_column *)

Letters ==
    << "A", "B", "C", "D", "E", "F", "G", "H", "I", "J", "K", "L", "M",
       "N", "O", "P", "Q", "R", "S", "T", "U", "V", "W", "X", "Y", "Z" >>

\* chr(65 + remainder)
Chr65(remainder) == Letters[remainder + 1]

\* lines 100-102: the call's state when its loop begins
ColumnEnter(n, start_at_0) ==
    [n0 |-> n, start_at_0 |-> start_at_0,
     n |-> IF start_at_0 THEN n + 1 ELSE n, result |-> <<>>, pc |-> "while"]

\* ColumnPass with divmod(n, 26) in place of divmod(n - 1, 26)
ColumnPass_NoMinusOne(c) ==
    [c EXCEPT !.n = c.n \div 26,
              !.result = << Chr65(c.n % 26) >> \o c.result]

\* lines 104-105: one pass of the loop
ColumnPass(c) ==
    [c EXCEPT !.n = (c.n - 1) \div 26,
              !.result = << Chr65((c.n - 1) % 26) >> \o c.result]

\* lines 103-106: the loop to its end
RECURSIVE ColumnLoop(_)
ColumnLoop(c) == IF c.n > 0 THEN ColumnLoop(ColumnPass(c)) ELSE c.result

\* the label _number_to_column(n, start_at_0) returns, letter by letter
number_to_column(n, start_at_0) == ColumnLoop(ColumnEnter(n, start_at_0))

\* largest column number given to _number_to_column
MaxN == 705

----------------------------------------------------------------------------
(* What the callers of the specifications below start from *)

\* gspread_function calls in progress at once, each in a thread of its own
NumThreads == 2

\* a thread that has not called gspread_function yet
IdleFrame == [NewFrame("gc.open") EXCEPT !.pc = "idle"]

\* no gspread_function call has ended yet
NoPrev == [calls |-> 0, sleeps |-> 0, counter |-> 0, pc |-> "none"]

\* the branches of lines 34-44 that retry
RetryClasses ==
    { "TRANSIENT_PARSE", "TRANSIENT_SERVER_502",
      "TRANSIENT_RATE_LIMIT", "TRANSIENT_UNAVAILABLE" }

NoneSeen == [c \in RetryClasses |-> 0]

\* no _number_to_column call has been made
IdleConv == [n0 |-> 0, start_at_0 |-> FALSE, n |-> 0, result |-> <<>>, pc |-> "idle"]

----------------------------------------------------------------------------
(* Actions of gspread_function *)

\* a caller calls gspread_function(f); the frame of an earlier call is gone
Call ==
    /\ stack = <<>> \/ (Len(stack) = 1 /\ Finished(Top))
    /\ stack' = << NewFrame("op") >>
    /\ remoteCalls' = 0
    /\ backoffs' = 0
    /\ UNCHANGED <<issued, others>>

LoopTest ==
    /\ Running
    /\ Top.kind = "exec"
    /\ Top.pc = "while"
    /\ stack' = SetTop(WhileTest(Top))
    /\ UNCHANGED <<remoteCalls, backoffs>>
    /\ UNCHANGED <<issued, others>>

TryInvoke ==
    /\ Running
    /\ Top.kind = "exec"
    /\ Top.pc = "try"
    /\ Top.f \in RemoteOps \cup LocalOps
    /\ \E o \in OutcomesOf(Top.f) : stack' = SetTop(TryOutcome(Top, o))
    /\ remoteCalls' = remoteCalls + (IF Top.f \in RemoteOps THEN 1 ELSE 0)
    /\ UNCHANGED backoffs
    /\ UNCHANGED <<issued, others>>

HandleJSONDecodeError ==
    /\ Running
    /\ Top.kind = "exec"
    /\ Top.pc = "except_json"
    /\ stack' = SetTop(ExceptJSONDecodeError(Top))
    /\ UNCHANGED <<remoteCalls, backoffs>>
    /\ UNCHANGED <<issued, others>>

HandleAPIError ==
    /\ Running
    /\ Top.kind = "exec"
    /\ Top.pc = "except_api"
    /\ stack' = SetTop(ExceptAPIError(Top))
    /\ UNCHANGED <<remoteCalls, backoffs>>
    /\ UNCHANGED <<issued, others>>

DoSleep ==
    /\ Running
    /\ Top.kind = "exec"
    /\ Top.pc = "sleep"
    /\ stack' = SetTop(Sleep(Top))
    /\ backoffs' = backoffs + 1
    /\ UNCHANGED remoteCalls
    /\ UNCHANGED <<issued, others>>

DoIncrement ==
    /\ Running
    /\ Top.kind = "exec"
    /\ Top.pc = "incr"
    /\ stack' = SetTop(Increment(Top))
    /\ UNCHANGED <<remoteCalls, backoffs>>
    /\ UNCHANGED <<issued, others>>

FinalInvoke ==
    /\ Running
    /\ Top.kind = "exec"
    /\ Top.pc = "final"
    /\ Top.f \in RemoteOps \cup LocalOps
    /\ \E o \in OutcomesOf(Top.f) : stack' = SetTop(FinalOutcome(Top, o))
    /\ remoteCalls' = remoteCalls + (IF Top.f \in RemoteOps THEN 1 ELSE 0)
    /\ UNCHANGED backoffs
    /\ UNCHANGED <<issued, others>>

Init ==
    /\ stack = <<>>
    /\ remoteCalls = 0
    /\ backoffs = 0
    /\ issued = <<>>
    /\ prev = NoPrev
    /\ perClass = NoneSeen
    /\ threads = << >>
    /\ conv = IdleConv

Next ==
    \/ Call
    \/ LoopTest
    \/ TryInvoke
    \/ HandleJSONDecodeError
    \/ HandleAPIError
    \/ DoSleep
    \/ DoIncrement
    \/ FinalInvoke

Spec == Init /\ [][Next]_vars

----------------------------------------------------------------------------
(* gspread_function called again and again by one caller *)

\* the remote call of the callers below
SeqOps == { "gc.open" }

\* what is left of a call that has ended
Summary(fr) == [calls |-> fr.calls, sleeps |-> fr.sleeps, counter |-> fr.counter, pc |-> fr.pc]

\* FreshCall with counter kept between calls, as a module-level variable
FreshCall_CounterKept(old, f) == [NewFrame(f) EXCEPT !.counter = old.counter]

\* lines 28-29: counter and counter_threshold are locals, set at the start
\* of every call; nothing of the call before, old, is read
FreshCall(old, f) == NewFrame(f)

\* the caller calls gspread_function again once the call before has ended
CallAgain ==
    /\ stack = <<>> \/ (Len(stack) = 1 /\ Finished(Top))
    /\ \E f \in SeqOps :
           stack' = << FreshCall(IF stack = <<>> THEN IdleFrame ELSE Top, f) >>
    /\ prev' = IF stack = <<>> THEN prev ELSE Summary(Top)
    /\ remoteCalls' = 0
    /\ backoffs' = 0
    /\ UNCHANGED <<issued, perClass, threads, conv>>

NextCalls ==
    \/ CallAgain
    \/ LoopTest
    \/ TryInvoke
    \/ HandleJSONDecodeError
    \/ HandleAPIError
    \/ DoSleep
    \/ DoIncrement
    \/ FinalInvoke

\* one caller, one gspread_function call after another
SpecCalls == Init /\ [][NextCalls]_vars

\* the branch of lines 34-44 that retries outcome o
ClassOf(o) == IF o.kind = "JSONDecodeError" THEN "TRANSIENT_PARSE" ELSE Classify(o)

\* the retryable failures so far, one more when o is one
Counted(seen, o) ==
    IF TransientOutcome(o) THEN [seen EXCEPT ![ClassOf(o)] = @ + 1] ELSE seen

CallCounted ==
    /\ stack = <<>> \/ (Len(stack) = 1 /\ Finished(Top))
    /\ \E f \in SeqOps : stack' = << NewFrame(f) >>
    /\ perClass' = NoneSeen
    /\ remoteCalls' = 0
    /\ backoffs' = 0
    /\ UNCHANGED <<issued, prev, threads, conv>>

\* TryInvoke, the failure counted by its branch
TryCounted ==
    /\ Running
    /\ Top.kind = "exec"
    /\ Top.pc = "try"
    /\ \E o \in OutcomesOf(Top.f) :
           /\ stack' = SetTop(TryOutcome(Top, o))
           /\ perClass' = Counted(perClass, o)
    /\ remoteCalls' = remoteCalls + 1
    /\ UNCHANGED <<backoffs, issued, prev, threads, conv>>

NextClasses ==
    \/ CallCounted
    \/ LoopTest
    \/ TryCounted
    \/ HandleJSONDecodeError
    \/ HandleAPIError
    \/ DoSleep
    \/ DoIncrement
    \/ FinalInvoke

\* one caller, the retryable failures of each call counted by branch
SpecClasses == Init /\ [][NextClasses]_vars

----------------------------------------------------------------------------
(* gspread_function called by several threads at once *)

\* the states a call in state fr may be in once its next statement is done,
\* outs being what one invocation of its operation can do
StepsOf(fr, outs) ==
    CASE fr.pc = "while" -> { WhileTest(fr) }
      [] fr.pc = "try" -> { TryOutcome(fr, o) : o \in outs }
      [] fr.pc = "except_json" -> { ExceptJSONDecodeError(fr) }
      [] fr.pc = "except_api" -> { ExceptAPIError(fr) }
      [] fr.pc = "sleep" -> { Sleep(fr) }
      [] fr.pc = "incr" -> { Increment(fr) }
      [] fr.pc = "final" -> { FinalOutcome(fr, o) : o \in outs }
      [] OTHER -> {}

\* what one invocation can do for the threads: a result, a retryable error,
\* an error that is not retried
ThreadOutcomes ==
    { Ok(1),
      Err("JSONDecodeError", [msg |-> {}, tb |-> {}]),
      Err("APIError", [msg |-> { "Invalid range" }, tb |-> { "Invalid range" }]) }

\* Interleave with counter a variable of the module, shared by the threads
Interleave_SharedCounter(ts, t, g) ==
    [u \in DOMAIN ts |-> IF u = t THEN g ELSE [ts[u] EXCEPT !.counter = g.counter]]

\* lines 28-52: every name gspread_function assigns is a local of the call,
\* so a statement of thread t changes the frame of thread t and no other
Interleave(ts, t, g) == [ts EXCEPT ![t] = g]

\* one more thread calls gspread_function
ThreadCall ==
    /\ Len(threads) < NumThreads
    /\ \E f \in SeqOps : threads' = Append(threads, NewFrame(f))
    /\ UNCHANGED <<stack, remoteCalls, backoffs, issued, prev, perClass, conv>>

\* the call of thread t does its next statement
ThreadStep ==
    /\ \E t \in DOMAIN threads :
           \E g \in StepsOf(threads[t], ThreadOutcomes) :
               threads' = Interleave(threads, t, g)
    /\ UNCHANGED <<stack, remoteCalls, backoffs, issued, prev, perClass, conv>>

NextThreads ==
    \/ ThreadCall
    \/ ThreadStep

\* NumThreads threads, each calling gspread_function once, in any interleaving
SpecThreads == Init /\ [][NextThreads]_vars

----------------------------------------------------------------------------
(* One gspread_function call after another, the program's state alone *)

\* frame fr without the record of what the call has done
Forget(fr) ==
    [fr EXCEPT !.calls = 0, !.failed = 0, !.transients = 0, !.sleeps = 0,
               !.slept = 0, !.logs = 0, !.lastLog = NoLog, !.lastOut = None]

LiveCall ==
    /\ stack = <<>> \/ (Len(stack) = 1 /\ Finished(Top))
    /\ \E f \in SeqOps : stack' = << NewFrame(f) >>
    /\ UNCHANGED <<remoteCalls, backoffs, issued, others>>

\* the next statement of the call: an invocation of f or a sleep that has
\* completed, or a statement of gspread_function itself
LiveStep ==
    /\ Running
    /\ \E g \in StepsOf(Top, OutcomesOf(Top.f)) : stack' = << Forget(g) >>
    /\ UNCHANGED <<remoteCalls, backoffs, issued, others>>

NextLive ==
    \/ LiveCall
    \/ LiveStep

\* every statement of a call in progress is completed in the end; the
\* caller need not call again
SpecLive == Init /\ [][NextLive]_vars /\ WF_vars(LiveStep)

----------------------------------------------------------------------------
(* _number_to_column called by itself *)

\* lines 95-102: a caller calls _number_to_column(n, start_at_0)
ColumnCall ==
    /\ conv.pc \in { "idle", "done" }
    /\ \E n \in 0..MaxN : \E start_at_0 \in BOOLEAN :
           conv' = ColumnEnter(n, start_at_0)
    /\ UNCHANGED <<stack, remoteCalls, backoffs, issued, prev, perClass, threads>>

\* lines 103-105: the test holds, the loop makes one pass
ColumnStep ==
    /\ conv.pc = "while"
    /\ conv.n > 0
    /\ conv' = ColumnPass(conv)
    /\ UNCHANGED <<stack, remoteCalls, backoffs, issued, prev, perClass, threads>>

\* lines 103 and 106: the test fails, result is returned
ColumnReturn ==
    /\ conv.pc = "while"
    /\ ~(conv.n > 0)
    /\ conv' = [conv EXCEPT !.pc = "done"]
    /\ UNCHANGED <<stack, remoteCalls, backoffs, issued, prev, perClass, threads>>

NextColumn ==
    \/ ColumnCall
    \/ ColumnStep
    \/ ColumnReturn

SpecColumn == Init /\ [][NextColumn]_vars

----------------------------------------------------------------------------
(* The GSPREAD methods *)

\* one statement of a method: op is what it does, f the operation, method or
\* computation it names, save whether the result is kept as the worksheet
St(op, f, save) == [op |-> op, f |-> f, save |-> save]

\* lines 61-230: the statements of each method, in order.  "exec" is
\* gspread_function(lambda: f), "call" a call of another method, "local" a
\* computation made in the method itself.
Program(name, arg) ==
    CASE name = "__init__" ->
           << St("local", "gspread.service_account", FALSE),
              St("exec", "lambda: self.open_workbook(workbook_name)", TRUE),
              St("return", "none", FALSE) >>
      [] name = "open_workbook" ->
           << St("exec", "gc.open", FALSE), St("return", "ret", FALSE) >>
      [] name = "get_sheet_by_name" ->
           << St("call", "get_worksheet_dict", FALSE),
              St("lookup", "worksheet_names", FALSE),
              St("call", "get_sheet_by_id", FALSE),
              St("return", "ret", FALSE) >>
      [] name = "get_worksheet_dict" ->
           << St("exec", "sh.worksheets", FALSE), St("return", "ret", FALSE) >>
      [] name = "get_sheet_by_id" ->
           << St("exec", "sh.get_worksheet_by_id", FALSE),
              St("return", "ret", FALSE) >>
      [] name = "replace_worksheet_with_df" ->
           << St("call", "get_sheet_by_name", TRUE),
              St("exec", "worksheet.clear_basic_filter", FALSE),
              St("exec", "worksheet.freeze(rows=0, cols=0)", FALSE),
              St("local", "list(df.columns)", FALSE),
              St("exec", "df.values.tolist", FALSE),
              St("local", "headers + data_rows", FALSE),
              St("exec", "worksheet.clear", FALSE),
              St("local", "_number_to_column", FALSE),
              St("exec", "worksheet.update", FALSE) >>
           \o (IF arg.rows + 1 > 1
                  THEN << St("exec", "worksheet.format", FALSE) >>
                  ELSE << >>)
           \o << St("exec", "worksheet.freeze(rows=1)", FALSE),
                 St("return", "ws", FALSE) >>
      [] name = "update_rows_by_range" ->
           << St("call", "_sheet_check", TRUE),
              St("exec", "worksheet.update", FALSE),
              St("return", "ws", FALSE) >>
      [] name = "_sheet_check" ->
           ( CASE arg.sheet = "Worksheet" -> << St("return", "sheet", FALSE) >>
               [] arg.sheet = "str" -> << St("call", "get_sheet_by_name", FALSE),
                                          St("return", "ret", FALSE) >>
               [] arg.sheet = "int" -> << St("call", "get_sheet_by_id", FALSE),
                                          St("return", "ret", FALSE) >>
               [] OTHER -> << St("raise", "ValueError", FALSE) >> )
      [] name = "sheet_to_df" ->
           << St("call", "_sheet_check", TRUE),
              St("exec", "sheet.get_all_values", FALSE),
              St("local", "pd.DataFrame", FALSE),
              St("return", "ret", FALSE) >>
      [] name = "append_row_to_sheet" ->
           << St("call", "_sheet_check", TRUE),
              St("exec", "sheet.append_row", FALSE),
              St("return", "ws", FALSE) >>
      [] name = "get_sheet_url" ->
           << St("call", "_sheet_check", TRUE), St("return", "ws", FALSE) >>
      [] name = "get_column_values" ->
           << St("call", "_sheet_check", TRUE),
              St("exec", "sheet.col_values", FALSE),
              St("return", "ret", FALSE) >>
      [] name = "batch_clear" ->
           << St("call", "_sheet_check", TRUE),
              St("exec", "sheet.batch_clear", FALSE),
              St("return", "ret", FALSE) >>
      [] name = "clear_basic_filter" ->
           << St("call", "_sheet_check", TRUE),
              St("exec", "worksheet.clear_basic_filter", FALSE),
              St("return", "ret", FALSE) >>
      [] name = "delete_rows" ->
           << St("call", "_sheet_check", TRUE),
              St("exec", "sheet.delete_rows", FALSE),
              St("return", "ret", FALSE) >>

Methods ==
    { "__init__", "open_workbook", "get_sheet_by_name", "get_worksheet_dict",
      "get_sheet_by_id", "replace_worksheet_with_df", "update_rows_by_range",
      "_sheet_check", "sheet_to_df", "append_row_to_sheet", "get_sheet_url",
      "get_column_values", "batch_clear", "clear_basic_filter", "delete_rows" }

\* the methods whose first parameter is a sheet reference
SheetMethods ==
    { "update_rows_by_range", "_sheet_check", "sheet_to_df",
      "append_row_to_sheet", "get_sheet_url", "get_column_values",
      "batch_clear", "clear_basic_filter", "delete_rows" }

SheetNames == { "Sheet1", "Missing" }

\* df.shape[1] of the tables given to replace_worksheet_with_df
ColCounts == { 1, 27 }

DefaultArg ==
    [sheet_name |-> "Sheet1", sheet |-> "Worksheet", rows |-> 0, cols |-> 1, id |-> 11]

\* the arguments a caller may give each method
Args(name) ==
    IF name = "get_sheet_by_name"
        THEN { [DefaultArg EXCEPT !.sheet_name = n] : n \in SheetNames }
    ELSE IF name = "replace_worksheet_with_df"
        THEN { [DefaultArg EXCEPT !.sheet_name = n, !.rows = r, !.cols = c] :
                   n \in SheetNames, r \in 0..MaxRows, c \in ColCounts }
    ELSE IF name \in SheetMethods
        THEN { [DefaultArg EXCEPT !.sheet = k] : k \in { "Worksheet", "int", "other" } }
             \cup { [DefaultArg EXCEPT !.sheet = "str", !.sheet_name = n] : n \in SheetNames }
    ELSE { DefaultArg }

\* the state of a method just called: at is the statement it is at, ret the
\* value of the latest call it made, ws the worksheet it keeps, id the
\* worksheet ID it passes on
NewMethodFrame(name, arg) ==
    [kind |-> "method", name |-> name, arg |-> arg, at |-> 1, pc |-> "run",
     ret |-> 0, ws |-> 0, id |-> arg.id, out |-> None]

Statement(fr) == Program(fr.name, fr.arg)[fr.at]

\* the method gets the outcome o of the call its statement made: a result is
\* kept and the method goes on, an error leaves the method (no method has a
\* try block)
Received(fr, o) ==
    IF o.kind = "ok"
        THEN [fr EXCEPT !.ret = o.val, !.at = @ + 1,
                        !.ws = IF Statement(fr).save THEN o.val ELSE @]
        ELSE [fr EXCEPT !.pc = "raised", !.out = o]

\* line 87: {ws.title: ws.id for ws in worksheets}, as the items in order
RECURSIVE DictOf(_, _)
DictOf(items, lower) ==
    IF items = << >> THEN << >>
    ELSE LET n == Len(items)
             d == DictOf(SubSeq(items, 1, n - 1), lower)
             k == IF lower THEN LowerTitle(items[n].title) ELSE items[n].title
             hit == { i \in DOMAIN d : d[i].title = k }
         IN IF hit = {}
                THEN Append(d, [title |-> k, id |-> items[n].id])
                ELSE [i \in DOMAIN d |->
                         IF i \in hit THEN [d[i] EXCEPT !.id = items[n].id] ELSE d[i]]

\* line 77: the dictionary of get_worksheet_dict with its keys lowered
WorksheetNames(w) == DictOf(DictOf(Workbooks[w], FALSE), TRUE)

\* Lookup with `sheet_name not in worksheet_names`, the name as given
Lookup_CaseSensitive(fr) ==
    LET names == WorksheetNames(fr.ret)
        key == fr.arg.sheet_name
        hit == { i \in DOMAIN names : names[i].title = key }
    IN IF hit = {}
           THEN [fr EXCEPT !.pc = "raised",
                    !.out = Err("OtherError",
                                [msg |-> { "Worksheet name must be one of" }
                                           \cup { names[i].title : i \in DOMAIN names },
                                 tb |-> { "Worksheet name must be one of" }
                                           \cup { names[i].title : i \in DOMAIN names }])]
           ELSE [fr EXCEPT !.id = names[CHOOSE i \in hit : TRUE].id, !.at = @ + 1]

\* Lookup with the message listing the titles as the workbook spells them
Lookup_TitlesAsGiven(fr) ==
    LET names == WorksheetNames(fr.ret)
        given == DictOf(Workbooks[fr.ret], FALSE)
        key == LowerTitle(fr.arg.sheet_name)
        hit == { i \in DOMAIN names : names[i].title = key }
    IN IF hit = {}
           THEN [fr EXCEPT !.pc = "raised",
                    !.out = Err("OtherError",
                                [msg |-> { "Worksheet name must be one of" }
                                           \cup { given[i].title : i \in DOMAIN given },
                                 tb |-> { "Worksheet name must be one of" }
                                           \cup { given[i].title : i \in DOMAIN given }])]
           ELSE [fr EXCEPT !.id = names[CHOOSE i \in hit : TRUE].id, !.at = @ + 1]

\* lines 77-80 of get_sheet_by_name, after get_worksheet_dict returned
Lookup(fr) ==
    LET names == WorksheetNames(fr.ret)
        key == LowerTitle(fr.arg.sheet_name)
        hit == { i \in DOMAIN names : names[i].title = key }
    IN IF hit = {}
           THEN [fr EXCEPT !.pc = "raised",
                    !.out = Err("OtherError",
                                [msg |-> { "Worksheet name must be one of" }
                                           \cup { names[i].title : i \in DOMAIN names },
                                 tb |-> { "Worksheet name must be one of" }
                                           \cup { names[i].title : i \in DOMAIN names }])]
           ELSE [fr EXCEPT !.id = names[CHOOSE i \in hit : TRUE].id, !.at = @ + 1]

\* what a computation made in a method can do: building the table of
\* sheet_to_df (lines 183-185) fails on a sheet without rows
LocalOutcomes(what) ==
    IF what = "pd.DataFrame"
        THEN { Ok(1), Err("OtherError", [msg |-> {}, tb |-> {}]) }
        ELSE { Ok(1) }

\* the value a return statement gives
Returned(fr, what) ==
    CASE what = "ret" -> fr.ret
      [] what = "ws" -> fr.ws
      [] what = "sheet" -> fr.arg.id
      [] OTHER -> 0

MethodRunning == Running /\ Top.kind = "method"

\* what a lambda given to gspread_function has captured
NoArg == [id |-> 0, top |-> "", col |-> <<>>, rows |-> 0]

\* ExecArg with the range ending at the last data row, the header row not
\* counted: len(data_rows) in place of len(all_rows)
ExecArg_NoHeaderRow(fr, f) ==
    CASE f = "sh.get_worksheet_by_id" -> [NoArg EXCEPT !.id = fr.id]
      [] f = "worksheet.update" ->
            [NoArg EXCEPT !.top = "A1", !.col = number_to_column(fr.arg.cols, FALSE),
                          !.rows = fr.arg.rows]
      [] f = "worksheet.format" ->
            [NoArg EXCEPT !.top = "A2", !.col = number_to_column(fr.arg.cols, FALSE),
                          !.rows = fr.arg.rows]
      [] OTHER -> NoArg

\* lines 93, 130-131 and 135: the worksheet ID of get_worksheet_by_id, the
\* range label of update and of format
ExecArg(fr, f) ==
    CASE f = "sh.get_worksheet_by_id" -> [NoArg EXCEPT !.id = fr.id]
      [] f = "worksheet.update" ->
            [NoArg EXCEPT !.top = "A1", !.col = number_to_column(fr.arg.cols, FALSE),
                          !.rows = 1 + fr.arg.rows]
      [] f = "worksheet.format" ->
            [NoArg EXCEPT !.top = "A2", !.col = number_to_column(fr.arg.cols, FALSE),
                          !.rows = 1 + fr.arg.rows]
      [] OTHER -> NoArg

\* the record of a gspread_function call a method makes
Issue(fr, f) == [f |-> f, x |-> ExecArg(fr, f), end |-> "running", val |-> 0]

\* the innermost gspread_function call in progress has ended as frame fr did
Ended(calls, fr) ==
    LET i == CHOOSE j \in DOMAIN calls :
                 /\ calls[j].end = "running"
                 /\ \A k \in DOMAIN calls : calls[k].end = "running" => k <= j
    IN [calls EXCEPT ![i] = [@ EXCEPT !.end = fr.pc, !.val = fr.out.val]]

\* a caller calls a method of GSPREAD
CallMethod ==
    /\ stack = <<>> \/ (Len(stack) = 1 /\ Finished(Top))
    /\ \E name \in Methods : \E arg \in Args(name) :
           stack' = << NewMethodFrame(name, arg) >>
    /\ remoteCalls' = 0
    /\ backoffs' = 0
    /\ issued' = <<>>
    /\ UNCHANGED others

\* gspread_function(lambda: ...) in a method
MethodExec ==
    /\ MethodRunning
    /\ Statement(Top).op = "exec"
    /\ stack' = Append(stack, NewFrame(Statement(Top).f))
    /\ remoteCalls' = IF InExec(stack) THEN remoteCalls ELSE 0
    /\ backoffs' = IF InExec(stack) THEN backoffs ELSE 0
    /\ issued' = Append(issued, Issue(Top, Statement(Top).f))
    /\ UNCHANGED others

\* self.<method>(...) in a method
MethodCall ==
    /\ MethodRunning
    /\ Statement(Top).op = "call"
    /\ stack' = Append(stack,
                       NewMethodFrame(Statement(Top).f, [Top.arg EXCEPT !.id = Top.id]))
    /\ UNCHANGED <<remoteCalls, backoffs>>
    /\ UNCHANGED <<issued, others>>

MethodLocal ==
    /\ MethodRunning
    /\ Statement(Top).op = "local"
    /\ \E o \in LocalOutcomes(Statement(Top).f) :
           stack' = SetTop(IF o.kind = "ok"
                               THEN [Top EXCEPT !.at = @ + 1]
                               ELSE [Top EXCEPT !.pc = "raised", !.out = o])
    /\ UNCHANGED <<remoteCalls, backoffs>>
    /\ UNCHANGED <<issued, others>>

MethodLookup ==
    /\ MethodRunning
    /\ Statement(Top).op = "lookup"
    /\ stack' = SetTop(Lookup(Top))
    /\ UNCHANGED <<remoteCalls, backoffs>>
    /\ UNCHANGED <<issued, others>>

\* line 174
MethodRaise ==
    /\ MethodRunning
    /\ Statement(Top).op = "raise"
    /\ stack' = SetTop([Top EXCEPT !.pc = "raised",
                           !.out = Err("OtherError",
                                       [msg |-> { "Invalid sheet reference" },
                                        tb |-> { "Invalid sheet reference" }])])
    /\ UNCHANGED <<remoteCalls, backoffs>>
    /\ UNCHANGED <<issued, others>>

MethodReturn ==
    /\ MethodRunning
    /\ Statement(Top).op = "return"
    /\ stack' = SetTop([Top EXCEPT !.pc = "returned",
                           !.out = Ok(Returned(Top, Statement(Top).f))])
    /\ UNCHANGED <<remoteCalls, backoffs>>
    /\ UNCHANGED <<issued, others>>

\* the call a method made has ended
ReturnToMethod ==
    /\ Len(stack) >= 2
    /\ Finished(Top)
    /\ stack[Len(stack) - 1].kind = "method"
    /\ stack' = [Pop EXCEPT ![Len(stack) - 1] = Received(@, Top.out)]
    /\ issued' = IF Top.kind = "exec" THEN Ended(issued, Top) ELSE issued
    /\ UNCHANGED <<remoteCalls, backoffs>>
    /\ UNCHANGED others

\* lines 33 and 52: f is a lambda that calls a method
InvokeLambda ==
    /\ Running
    /\ Top.kind = "exec"
    /\ Top.pc \in { "try", "final" }
    /\ Top.f \in LambdaOps
    /\ stack' = Append(stack, NewMethodFrame(LambdaBody(Top.f), DefaultArg))
    /\ UNCHANGED <<remoteCalls, backoffs>>
    /\ UNCHANGED <<issued, others>>

\* the method a lambda called has ended: f() has its outcome
ReturnToExec ==
    /\ Len(stack) >= 2
    /\ Finished(Top)
    /\ stack[Len(stack) - 1].kind = "exec"
    /\ stack' = [Pop EXCEPT ![Len(stack) - 1] =
                     IF @.pc = "try" THEN TryOutcome(@, Top.out)
                                     ELSE FinalOutcome(@, Top.out)]
    /\ UNCHANGED <<remoteCalls, backoffs>>
    /\ UNCHANGED <<issued, others>>

NextGspread ==
    \/ CallMethod
    \/ MethodExec
    \/ MethodCall
    \/ MethodLocal
    \/ MethodLookup
    \/ MethodRaise
    \/ MethodReturn
    \/ ReturnToMethod
    \/ InvokeLambda
    \/ ReturnToExec
    \/ LoopTest
    \/ TryInvoke
    \/ HandleJSONDecodeError
    \/ HandleAPIError
    \/ DoSleep
    \/ DoIncrement
    \/ FinalInvoke

\* the methods of GSPREAD, called one after another by a caller
SpecGspread == Init /\ [][NextGspread]_vars

----------------------------------------------------------------------------
(* Properties of one gspread_function call *)

\* the frames of the gspread_function calls in progress or just ended
Frames == { stack[i] : i \in { j \in DOMAIN stack : stack[j].kind = "exec" } }

\* C1: a call whose first k < 9 invocations raised retryable errors and whose
\* (k+1)-th invocation succeeded has returned that invocation's value after
\* exactly k+1 invocations and exactly k sleeps; and a call whose latest
\* invocation succeeded is never anywhere but returned.
C1_ReturnsAfterKTransients ==
    \A fr \in Frames :
        /\ (fr.calls >= 1 /\ fr.lastOut.kind = "ok" /\ fr.failed < counter_threshold)
              => /\ fr.pc = "returned"
                 /\ fr.out = fr.lastOut
                 /\ fr.transients = fr.failed
                 /\ fr.calls = fr.failed + 1
                 /\ fr.sleeps = fr.failed
        /\ (fr.pc = "returned" /\ fr.via = "loop")
              => /\ fr.failed < counter_threshold
                 /\ fr.lastOut.kind = "ok"

\* the scenario of the specification: two malformed responses, then 42
C1_Witness ==
    \E fr \in Frames :
        /\ fr.pc = "returned"
        /\ fr.out = Ok(42)
        /\ fr.calls = 3
        /\ fr.transients = 2
        /\ fr.sleeps = 2
        /\ fr.lastLog.text = LogText("TRANSIENT_PARSE")

\* C2: after 9 invocations that all raised retryable errors the call has slept
\* 9 times and makes one more invocation, the 10th, whose outcome is returned
\* or raised as it is: it is not caught, not classified, not slept on, and no
\* 11th invocation follows.
C2_FinalAttemptUnconditional ==
    \A fr \in Frames :
        /\ fr.calls <= counter_threshold + 1
        /\ (fr.calls = counter_threshold /\ fr.transients = counter_threshold)
              => /\ fr.pc \in { "except_json", "except_api", "sleep", "incr",
                                "while", "final" }
                 /\ fr.pc = "final" => fr.sleeps = counter_threshold
        /\ fr.pc = "final"
              => /\ fr.calls = counter_threshold
                 /\ fr.transients = counter_threshold
                 /\ fr.sleeps = counter_threshold
        /\ fr.calls = counter_threshold + 1
              => /\ Finished(fr)
                 /\ fr.via = "final"
                 /\ fr.out = fr.lastOut
                 /\ fr.pc = "returned" <=> fr.lastOut.kind = "ok"
                 /\ fr.e = None
                 /\ fr.sleeps = counter_threshold
                 /\ fr.slept = counter_threshold * SleepSeconds
                 /\ fr.logs = counter_threshold + 1
                 /\ fr.lastLog.text = LogText("FINAL")
        /\ fr.via = "final" => fr.calls = counter_threshold + 1

\* the scenario of the specification: every call raises "502 Server Error"
C2_Witness ==
    \E fr \in Frames :
        /\ fr.pc = "raised"
        /\ fr.via = "final"
        /\ fr.calls = 10
        /\ fr.sleeps = 9
        /\ fr.out.kind = "APIError"
        /\ fr.out.msg = { "502", "Server Error" }
        /\ Classify(fr.out) = "TRANSIENT_SERVER_502"

\* C3: an APIError of the loop that matches none of the substrings is raised
\* again at once: after the i-th invocation raised it the call is only ever
\* in the except clause or ended with that error, with i invocations, i-1
\* sleeps and counter = i-1 (never incremented for it).
C3_FatalRaisedAtOnce ==
    \A fr \in Frames :
        (/\ fr.calls >= 1
         /\ fr.lastOut.kind = "APIError"
         /\ Classify(fr.lastOut) = "FATAL"
         /\ fr.via # "final")
           => /\ fr.pc \in { "except_api", "raised" }
              /\ fr.pc = "except_api" => fr.e = fr.lastOut
              /\ fr.pc = "raised" => fr.out = fr.lastOut /\ fr.via = "loop"
              /\ fr.calls <= counter_threshold
              /\ fr.sleeps = fr.calls - 1
              /\ fr.counter = fr.calls - 1
              /\ fr.transients = fr.calls - 1

\* "Invalid range" on the first call: raised with no sleep and no retry
C3_Witness ==
    \E fr \in Frames :
        /\ fr.pc = "raised"
        /\ fr.via = "loop"
        /\ fr.out.kind = "APIError"
        /\ fr.out.tb = { "Invalid range" }
        /\ fr.calls = 1
        /\ fr.sleeps = 0
        /\ fr.counter = 0

\* C3, the i-th attempt: a fatal error after two retried ones
C3_WitnessLater ==
    \E fr \in Frames :
        /\ fr.pc = "raised"
        /\ fr.via = "loop"
        /\ Classify(fr.out) = "FATAL"
        /\ fr.calls = 3
        /\ fr.sleeps = 2

\* C4: an error that is neither a JSONDecodeError nor an APIError leaves the
\* call on the invocation that raised it: no except clause is entered, no
\* line is printed for it, no sleep and no further invocation follow.
C4_OtherErrorPropagates ==
    \A fr \in Frames :
        (fr.calls >= 1 /\ fr.lastOut.kind = "OtherError")
           => /\ fr.pc = "raised"
              /\ fr.out = fr.lastOut
              /\ fr.e = None
              /\ fr.via = "loop"
                    => /\ fr.sleeps = fr.calls - 1
                       /\ fr.logs = fr.calls - 1
                       /\ fr.counter = fr.calls - 1
              /\ fr.via = "final"
                    => /\ fr.sleeps = counter_threshold
                       /\ fr.logs = counter_threshold + 1

\* an error of another type on the first call, even one whose text holds "502"
C4_Witness ==
    \E fr \in Frames :
        /\ fr.pc = "raised"
        /\ fr.out.kind = "OtherError"
        /\ "502" \in fr.out.msg
        /\ fr.calls = 1
        /\ fr.sleeps = 0
        /\ fr.logs = 0

\* C5: counter stays within 0..9; f is invoked at most 10 times and sleep at
\* most 9 times; the 10th invocation is made only with counter = 9, from the
\* statement after the loop, once, and an error it raises is not caught.
C5_AttemptBounds ==
    \A fr \in Frames :
        /\ fr.counter \in 0..counter_threshold
        /\ fr.calls \in 0..(counter_threshold + 1)
        /\ fr.sleeps \in 0..counter_threshold
        /\ fr.pc \in { "try", "except_json", "except_api", "sleep" }
              => fr.counter < counter_threshold
        /\ fr.pc = "final" => fr.counter = counter_threshold /\ fr.calls = counter_threshold
        /\ fr.calls = counter_threshold + 1
              => /\ fr.counter = counter_threshold
                 /\ fr.via = "final"
                 /\ Finished(fr)
                 /\ fr.lastOut.kind # "ok" => fr.pc = "raised" /\ fr.out = fr.lastOut

\* the 10th invocation has been made and raised a retryable error
C5_Witness ==
    \E fr \in Frames :
        /\ fr.calls = 10
        /\ fr.counter = 9
        /\ fr.sleeps = 9
        /\ fr.pc = "raised"
        /\ fr.out.kind = "JSONDecodeError"

\* C6: once an invocation has succeeded the call has returned its result and
\* nothing follows it: no sleep, no printed line, no except clause; a call
\* whose every invocation succeeded made one invocation, slept and printed
\* nothing and classified nothing.
C6_SuccessReturnsAtOnce ==
    \A fr \in Frames :
        /\ (fr.calls >= 1 /\ fr.lastOut.kind = "ok")
              => /\ fr.pc = "returned"
                 /\ fr.out = fr.lastOut
                 /\ fr.e = None
                 /\ fr.calls = fr.failed + 1
                 /\ fr.sleeps = fr.failed
                 /\ fr.via = "loop" => fr.logs = fr.failed
        /\ (Finished(fr) /\ fr.failed = 0)
              => /\ fr.pc = "returned"
                 /\ fr.calls = 1
                 /\ fr.sleeps = 0
                 /\ fr.logs = 0
                 /\ fr.lastLog = NoLog
                 /\ fr.counter = 0
        /\ fr.pc = "returned" => fr.out.kind = "ok" /\ fr.out = fr.lastOut

\* the operation succeeded on the first invocation
C6_Witness ==
    \E fr \in Frames :
        /\ fr.pc = "returned"
        /\ fr.out = Ok(42)
        /\ fr.calls = 1
        /\ fr.sleeps = 0
        /\ fr.logs = 0

\* the class of a caught error as the specification words it: "502" or
\* "Server Error" anywhere in the message or the stack trace
ClassAsWorded(e) ==
    IF e.kind = "JSONDecodeError" THEN "TRANSIENT_PARSE"
    ELSE IF \/ "502" \in e.msg \/ "502" \in e.tb
            \/ "Server Error" \in e.msg \/ "Server Error" \in e.tb
        THEN "TRANSIENT_SERVER_502"
    ELSE IF "Quota exceeded" \in e.tb \/ "Read requests per minute per user" \in e.tb
        THEN "TRANSIENT_RATE_LIMIT"
    ELSE IF \E s \in e.tb : LowerFragment(s) = "the service is currently unavailable"
        THEN "TRANSIENT_UNAVAILABLE"
    ELSE "FATAL"

\* the same table with "502" looked for in the message only
ClassAsAmended(e) ==
    IF e.kind = "JSONDecodeError" THEN "TRANSIENT_PARSE"
    ELSE IF "502" \in e.msg \/ "Server Error" \in e.tb
        THEN "TRANSIENT_SERVER_502"
    ELSE IF "Quota exceeded" \in e.tb \/ "Read requests per minute per user" \in e.tb
        THEN "TRANSIENT_RATE_LIMIT"
    ELSE IF \E s \in e.tb : LowerFragment(s) = "the service is currently unavailable"
        THEN "TRANSIENT_UNAVAILABLE"
    ELSE "FATAL"

\* what the loop does with a caught error of each class of the table
\* class(_): a transient class is logged with its own line, slept on for 30,
\* counted and retried; FATAL is raised again
HandledAs(fr, class(_)) ==
    /\ fr.pc \in { "except_json", "except_api" }
          => /\ fr.e = fr.lastOut
             /\ fr.e.kind = (IF fr.pc = "except_json" THEN "JSONDecodeError"
                                                      ELSE "APIError")
             /\ fr.logs = fr.counter /\ fr.sleeps = fr.counter
    /\ fr.pc = "sleep"
          => /\ fr.e = fr.lastOut
             /\ class(fr.e) # "FATAL"
             /\ fr.lastLog.text = LogText(class(fr.e))
             /\ fr.logs = fr.counter + 1 /\ fr.sleeps = fr.counter
    /\ fr.pc = "incr"
          => /\ fr.e = fr.lastOut
             /\ class(fr.e) # "FATAL"
             /\ fr.lastLog.text = LogText(class(fr.e))
             /\ fr.logs = fr.counter + 1 /\ fr.sleeps = fr.counter + 1
    /\ fr.pc \in { "while", "try" }
          => /\ fr.calls = fr.counter /\ fr.transients = fr.counter
             /\ fr.logs = fr.counter /\ fr.sleeps = fr.counter
             /\ fr.counter > 0 => class(fr.lastOut) # "FATAL"
    /\ fr.slept = SleepSeconds * fr.sleeps
    /\ (fr.pc = "raised" /\ fr.via = "loop" /\ fr.out.kind = "APIError")
          => /\ class(fr.out) = "FATAL"
             /\ fr.lastLog.text = LogText("FATAL")
             /\ fr.sleeps = fr.counter

\* C7 as stated: the loop treats every caught error by the table in which an
\* APIError with "502" or "Server Error" anywhere in its message or stack
\* trace is TRANSIENT_SERVER_502.
C7_AsStated == \A fr \in Frames : HandledAs(fr, ClassAsWorded)

\* C7, amended: the loop treats every caught error by the table in which an
\* APIError is TRANSIENT_SERVER_502 when its message holds "502" or its stack
\* trace holds "Server Error" ("502" in the trace outside the message does
\* not count); the other rows are as stated: JSONDecodeError is
\* TRANSIENT_PARSE, then "Quota exceeded" or "Read requests per minute per
\* user" in the trace is TRANSIENT_RATE_LIMIT, then "the service is currently
\* unavailable" in the lowered trace is TRANSIENT_UNAVAILABLE, anything else
\* FATAL; a transient class is logged, slept on for 30, counted and retried,
\* FATAL is raised again.
C7_ClassificationTable == \A fr \in Frames : HandledAs(fr, ClassAsAmended)

\* a service-unavailable error spelled in capitals, with rate-limit text in
\* lower case that does not match, has been logged and slept on
C7_Witness ==
    \E fr \in Frames :
        /\ fr.pc = "incr"
        /\ fr.e.kind = "APIError"
        /\ fr.e.tb = { "The Service Is Currently Unavailable", "quota exceeded" }
        /\ fr.lastLog.text = LogText("TRANSIENT_UNAVAILABLE")
        /\ fr.slept = 30

\* C8: a call that has raised gives its caller the very error its latest
\* invocation of f raised; an error raised from the loop is never one of the
\* retried classes; a call that has ended holds either the result of f or
\* such an error.
C8_OriginalErrorPropagates ==
    \A fr \in Frames :
        /\ fr.pc = "raised"
              => /\ fr.out = fr.lastOut
                 /\ fr.out.kind \in ErrorKinds
                 /\ fr.via \in { "loop", "final" }
                 /\ fr.via = "loop" => ~TransientOutcome(fr.out)
                 /\ fr.failed = fr.calls
        /\ fr.pc = "returned"
              => /\ fr.out = fr.lastOut
                 /\ fr.out.kind = "ok"
        /\ ~Finished(fr) => fr.out = None
        /\ (fr.pc \in { "sleep", "incr", "while", "try", "final" } /\ fr.calls >= 1)
              => TransientOutcome(fr.lastOut)

\* a fatal APIError met after one retry has reached the caller unchanged
C8_Witness ==
    \E fr \in Frames :
        /\ fr.pc = "raised"
        /\ fr.via = "loop"
        /\ fr.calls = 2
        /\ fr.out = Err("APIError", [msg |-> { "Invalid range" },
                                     tb |-> { "Invalid range", "502" }])

----------------------------------------------------------------------------
(* Properties of the GSPREAD methods *)

\* no gspread_function call runs inside another one
NoNestedExec ==
    \A i, j \in DOMAIN stack :
        (i < j /\ stack[i].kind = "exec") => stack[j].kind # "exec"

\* C9: every call of the remote client is the operation of one
\* gspread_function call that is not inside another one, so that between the
\* start of a gspread_function call made by a method and its end the remote
\* client is invoked at most 10 times and sleep at most 9 times, the open of
\* GSPREAD.__init__ included.
C9_AsStated ==
    /\ NoNestedExec
    /\ remoteCalls <= counter_threshold + 1
    /\ backoffs <= counter_threshold

\* what holds instead: only __init__ nests, and its gc.open is invoked at
\* most 10 * 10 times with at most 9 + 9 * 10 sleeps
C9_NestedBounds ==
    /\ remoteCalls <= (counter_threshold + 1) * (counter_threshold + 1)
    /\ backoffs <= counter_threshold + counter_threshold * (counter_threshold + 1)
    /\ (stack # << >> /\ stack[1].name # "__init__") => C9_AsStated

\* GSPREAD(...) with a gc.open that always raises a retryable APIError: the
\* 100th invocation has been made, after 99 sleeps
C9_NestedReached ==
    /\ remoteCalls = 100
    /\ backoffs = 99
    /\ stack[1].name = "__init__"
    /\ stack[1].pc = "raised"
    /\ TransientOutcome(stack[1].out)

\* the conversions between tables and lists of rows: line 124, lines 183-185
Conversions == { "df.values.tolist", "pd.DataFrame" }

\* C10: no conversion between a table and a list of rows is the operation
\* of a gspread_function call: each runs once per method call, in the method
\* itself, and an error it raises is not caught, slept on or retried.
C10_AsStated ==
    \A fr \in Frames : fr.f \notin Conversions

\* what holds instead: the conversion of sheet_to_df is made in the method
\* and its error leaves the method at once; the one of
\* replace_worksheet_with_df is the operation of a gspread_function call
C10_SheetToDfOutside ==
    /\ \A fr \in Frames : fr.f # "pd.DataFrame"
    /\ \A fr \in Frames :
           fr.f = "df.values.tolist" =>
               /\ stack[1].name = "replace_worksheet_with_df"
               /\ stack[1].at = 5

\* replace_worksheet_with_df with a table whose conversion raises a
\* retryable error every time: it has been run 10 times, with 9 sleeps
C10_ConversionRetried ==
    \E fr \in Frames :
        /\ fr.f = "df.values.tolist"
        /\ fr.calls = 10
        /\ fr.sleeps = 9
        /\ fr.pc = "raised"

----------------------------------------------------------------------------
(* Properties of get_sheet_by_name *)

\* the get_sheet_by_name calls in progress or just ended
ByName ==
    { stack[i] : i \in { j \in DOMAIN stack :
                            stack[j].kind = "method" /\ stack[j].name = "get_sheet_by_name" } }

\* two spellings that differ in letter case at most
SameIgnoringCase(a, b) ==
    \/ a = b
    \/ { a, b } \in { { "Sheet1", "sheet1" }, { "Sheet2", "sheet2" }, { "Data", "data" } }

\* the worksheets of listing w whose title is name, letter case ignored
Matching(name, w) ==
    { i \in DOMAIN Workbooks[w] : SameIgnoringCase(Workbooks[w][i].title, name) }

\* the worksheet listing has been fetched
Listed ==
    /\ issued # << >>
    /\ issued[1].f = "sh.worksheets"
    /\ issued[1].end = "returned"

\* C11: get_sheet_by_name with a name that equals, letter case ignored, the
\* title of a worksheet of the listing does not raise its own error, passes
\* that worksheet's ID to the get-by-ID call and returns the handle that call
\* returned; its gspread_function calls are the listing, then the get-by-ID
\* call, which is made only once the listing has returned.
C11_ResolvesIgnoringCase ==
    \A fr \in ByName :
        /\ fr.at >= 2 => Listed
        /\ (fr.at = 2 /\ Matching(fr.arg.sheet_name, issued[1].val) # {})
              => fr.pc = "run"
        /\ (fr.at >= 3 /\ Matching(fr.arg.sheet_name, issued[1].val) # {})
              => /\ \E i \in Matching(fr.arg.sheet_name, issued[1].val) :
                        fr.id = Workbooks[issued[1].val][i].id
                 /\ Len(issued) <= 2
                 /\ Len(issued) = 2
                       => /\ issued[2].f = "sh.get_worksheet_by_id"
                          /\ issued[2].x.id = fr.id
                 /\ fr.pc = "returned"
                       => /\ Len(issued) = 2
                          /\ issued[2].end = "returned"
                          /\ fr.out = Ok(issued[2].val)

\* "Sheet1" asked of the workbook with worksheets "sheet1" (ID 11) and
\* "Sheet2": the handle fetched for ID 11 has been returned
C11_Witness ==
    \E fr \in ByName :
        /\ fr.arg.sheet_name = "Sheet1"
        /\ Listed
        /\ issued[1].val = 1
        /\ fr.pc = "returned"
        /\ fr.id = 11
        /\ fr.out = Ok(2)

\* the ValueError of line 79
NameNotFound(o) ==
    o.kind = "OtherError" /\ "Worksheet name must be one of" \in o.msg

\* the titles of listing w in lower case
LowerCasedTitles(w) ==
    CASE w = 1 -> { "sheet1", "sheet2" }
      [] w = 2 -> { "data" }

\* C12: get_sheet_by_name with a name that matches no title of the listing,
\* letter case ignored, raises the ValueError whose message lists the titles
\* in lower case; the error is raised once the listing call has returned, in
\* no gspread_function call, it goes up through the callers unretried, and
\* no get-by-ID call is made before or after it.
C12_NameNotFound ==
    /\ \A fr \in ByName :
           /\ (fr.at >= 3 \/ (fr.at = 2 /\ fr.pc = "run")) => Listed
           /\ (fr.at >= 3) => Matching(fr.arg.sheet_name, issued[1].val) # {}
           /\ (fr.at = 2 /\ fr.pc = "raised")
                 => /\ Matching(fr.arg.sheet_name, issued[1].val) = {}
                    /\ NameNotFound(fr.out)
                    /\ fr.out.msg = { "Worksheet name must be one of" }
                                        \cup LowerCasedTitles(issued[1].val)
    /\ \A i \in DOMAIN stack :
           (stack[i].kind = "method" /\ stack[i].pc = "raised" /\ NameNotFound(stack[i].out))
               => /\ Listed
                  /\ Len(issued) = 1
                  /\ ~InExec(stack)
                  /\ i = Len(stack)

\* "Missing" asked of the workbook with worksheets "sheet1" and "Sheet2",
\* whose listing took two retries
C12_Witness ==
    /\ Len(stack) = 1
    /\ stack[1].name = "get_sheet_by_name"
    /\ stack[1].arg.sheet_name = "Missing"
    /\ stack[1].pc = "raised"
    /\ stack[1].out.msg = { "Worksheet name must be one of", "sheet1", "sheet2" }
    /\ issued[1].val = 1
    /\ backoffs = 2

----------------------------------------------------------------------------
(* Properties of the retry counter *)

\* C13: every gspread_function call starts with counter 0 whatever the call
\* before it did: a call that has not invoked its operation yet has counter
\* 0 and has not slept, the counter of a call is the number of its own
\* sleeps, and its final attempt comes after 9 invocations and 9 sleeps of
\* its own, never fewer.
C13_FreshPerCall ==
    \A fr \in Frames :
        /\ fr.calls = 0 => (fr.counter = 0 /\ fr.sleeps = 0 /\ fr.pc \in { "while", "try" })
        /\ fr.counter = fr.sleeps - (IF fr.pc = "incr" THEN 1 ELSE 0)
        /\ fr.counter <= 9
        /\ fr.pc = "final" => (fr.calls = 9 /\ fr.sleeps = 9)
        /\ fr.via = "final" => (fr.calls = 10 /\ fr.sleeps = 9)

\* after a call that used its 9 retries and its final attempt and raised,
\* the next call has used 9 retries of its own and its final attempt
C13_Witness ==
    /\ prev.pc = "raised"
    /\ prev.calls = 10
    /\ prev.sleeps = 9
    /\ stack # << >>
    /\ Top.pc = "returned"
    /\ Top.calls = 10
    /\ Top.sleeps = 9

\* retryable failures of the call in progress, all branches together
TotalTransients ==
    perClass["TRANSIENT_PARSE"] + perClass["TRANSIENT_SERVER_502"]
        + perClass["TRANSIENT_RATE_LIMIT"] + perClass["TRANSIENT_UNAVAILABLE"]

\* C17: the retryable failures of all four branches count against one
\* budget: at the loop head counter is the number of sleeps and the number
\* of failed invocations so far, of whatever branch; the final attempt is
\* reached only with 9 retryable failures in total, and with 9 in total no
\* further attempt is made in the loop.
C17_OneSharedBudget ==
    \A fr \in Frames :
        /\ fr.pc = "while"
              => /\ fr.counter = fr.sleeps
                 /\ fr.counter = fr.failed
                 /\ fr.counter = TotalTransients
        /\ (fr.pc = "final" \/ fr.via = "final") => TotalTransients = 9
        /\ TotalTransients = 9 => (fr.pc # "try" /\ fr.via # "loop")
        /\ TotalTransients <= 9

\* the final attempt reached with no branch having failed 9 times
C17_Witness ==
    /\ stack # << >>
    /\ Top.pc = "final"
    /\ perClass["TRANSIENT_PARSE"] = 3
    /\ perClass["TRANSIENT_SERVER_502"] = 2
    /\ perClass["TRANSIENT_RATE_LIMIT"] = 2
    /\ perClass["TRANSIENT_UNAVAILABLE"] = 2

----------------------------------------------------------------------------
(* Properties of calls in several threads *)

\* the retry bookkeeping of one call holds of frame fr
OwnBudget(fr) ==
    /\ fr.counter <= 9
    /\ fr.calls <= 10
    /\ fr.counter = fr.sleeps - (IF fr.pc = "incr" THEN 1 ELSE 0)
    /\ fr.transients = fr.sleeps + (IF fr.pc \in { "except_json", "sleep" } THEN 1 ELSE 0)
                          + (IF fr.via = "final" /\ TransientOutcome(fr.out) THEN 1 ELSE 0)
    /\ fr.pc \in { "while", "try", "final" } => fr.calls = fr.counter
    /\ Finished(fr) => fr.out = fr.lastOut

\* C14: the calls of different threads are independent under every
\* interleaving: each call keeps the bookkeeping of a call made alone
\* (counter equal to its own sleeps and own retryable failures, at most 10
\* invocations, its outcome that of its own latest invocation), and a
\* statement of one call leaves the frame of every other call as it was.
C14_IndependentCalls ==
    /\ [](\A t \in DOMAIN threads : OwnBudget(threads[t]))
    /\ [][\A t, u \in DOMAIN threads :
             (t # u /\ threads'[t] # threads[t]) => threads'[u] = threads[u]]_vars

\* one thread has used all 10 invocations and raised while another,
\* started before that, is in its fourth sleep; they are not one call
C14_Witness ==
    /\ Len(threads) = 2
    /\ threads[1].pc = "raised"
    /\ threads[1].calls = 10
    /\ threads[1].sleeps = 9
    /\ threads[2].pc = "sleep"
    /\ threads[2].sleeps = 3
    /\ threads[2].calls = 4

----------------------------------------------------------------------------
(* Termination *)

\* C18: every gspread_function call whose invocations and sleeps complete
\* ends, by returning or raising, whatever its invocations do; and a call
\* that raised a retryable error did so from the final attempt, with
\* counter at 9: nothing else ends a run of retryable failures.
C18_Terminates ==
    /\ [](Running => <>(stack # << >> /\ Finished(Top)))
    /\ []((stack # << >> /\ Top.pc = "raised" /\ TransientOutcome(Top.out))
            => (Top.counter = 9 /\ Top.via = "final"))

\* a call whose every invocation raised a retryable error has raised it
C18_Witness ==
    /\ stack # << >>
    /\ Top.pc = "raised"
    /\ Top.via = "final"
    /\ Top.counter = 9
    /\ Top.out.kind = "JSONDecodeError"
    /\ Top.calls = 0

----------------------------------------------------------------------------
(* The states of one call *)

\* the state of the specification's state set a call is in: the loop head,
\* the invocation in the loop and the choice of the except branch are
\* ATTEMPTING, the sleep and the increment after it RETRY_WAIT
StateOf(s) ==
    IF s = << >> THEN "NONE"
    ELSE CASE s[1].pc \in { "while", "try", "except_json", "except_api" } -> "ATTEMPTING"
           [] s[1].pc \in { "sleep", "incr" } -> "RETRY_WAIT"
           [] s[1].pc = "final" -> "FINAL_ATTEMPT"
           [] s[1].pc = "returned" -> "DONE"
           [] s[1].pc = "raised" -> "FAILED"

\* the step from stack s to stack t is one the state set allows
Transition(s, t) ==
    LET a == StateOf(s)
        b == StateOf(t)
    IN CASE a \in { "NONE", "DONE", "FAILED" } ->
                 t = << NewFrame(t[1].f) >>
         [] a = "ATTEMPTING" /\ b = "ATTEMPTING" -> TRUE
         [] a = "ATTEMPTING" /\ b = "DONE" -> t[1].lastOut.kind = "ok"
         [] a = "ATTEMPTING" /\ b = "RETRY_WAIT" -> TransientOutcome(t[1].lastOut)
         [] a = "ATTEMPTING" /\ b = "FAILED" ->
                 t[1].lastOut.kind # "ok" /\ ~TransientOutcome(t[1].lastOut)
         [] a = "ATTEMPTING" /\ b = "FINAL_ATTEMPT" ->
                 s[1].counter = 9 /\ s[1].calls = 9 /\ s[1].sleeps = 9
         [] a = "RETRY_WAIT" /\ b \in { "RETRY_WAIT", "ATTEMPTING" } -> TRUE
         [] a = "FINAL_ATTEMPT" /\ b = "DONE" -> t[1].out.kind = "ok"
         [] a = "FINAL_ATTEMPT" /\ b = "FAILED" -> t[1].out.kind # "ok"
         [] OTHER -> FALSE

\* C15: every step of a call is a transition of the state set: ATTEMPTING
\* to DONE on success, to RETRY_WAIT and back on a retryable failure, to
\* FAILED on any other failure, to FINAL_ATTEMPT from the loop head reached
\* with counter 9, and FINAL_ATTEMPT to DONE or FAILED; nothing follows DONE
\* or FAILED but a new call, and FINAL_ATTEMPT is never entered twice.
C15_StateMachine == [][Transition(stack, stack')]_vars

\* a call in FINAL_ATTEMPT, the notice of line 51 printed
C15_Witness ==
    /\ StateOf(stack) = "FINAL_ATTEMPT"
    /\ Top.lastLog.text = "Final attempt after hitting retry threshold."
    /\ Top.counter = 9

\* the lines printed on the branches that retry
RetryLines ==
    { "JSONDecodeError. Sleeping for 30 seconds.", "502 Server Error. Retrying",
      "Rate limit hit. Retrying", "Service unavailable. Retrying" }

\* C16: every retry is one line printed, then one sleep of 30 seconds,
\* then the next invocation: the time slept is 30 times the number of
\* sleeps, before its (k+1)-th invocation a call has slept exactly k times,
\* each sleep comes right after the one line of its branch, and the lines
\* printed are one per sleep, the notice of the final attempt and the
\* traceback of an error that is not retried apart.
C16_OneLogOneSleep ==
    \A fr \in Frames :
        /\ fr.slept = 30 * fr.sleeps
        /\ fr.pc \in { "try", "final" } => fr.sleeps = fr.calls
        /\ Finished(fr) => fr.sleeps = fr.calls - 1
        /\ fr.pc = "sleep" => (fr.logs = fr.sleeps + 1 /\ fr.lastLog.text \in RetryLines)
        /\ fr.pc \in { "incr", "while", "try", "except_json", "except_api" }
              => fr.logs = fr.sleeps
        /\ (fr.pc = "final" \/ fr.via = "final")
              => /\ fr.logs = fr.sleeps + 1
                 /\ fr.lastLog.text = "Final attempt after hitting retry threshold."
        /\ (Finished(fr) /\ fr.via = "loop")
              => fr.logs = fr.sleeps + (IF fr.out.kind = "APIError" THEN 1 ELSE 0)
        /\ ~Finished(fr) => fr.out = None

\* a call about to invoke its operation the third time: two lines, 60 s
C16_Witness ==
    /\ stack # << >>
    /\ Top.pc = "try"
    /\ Top.calls = 2
    /\ Top.sleeps = 2
    /\ Top.slept = 60
    /\ Top.logs = 2

----------------------------------------------------------------------------
(* Properties of replace_worksheet_with_df *)

\* the remote calls of the body of replace_worksheet_with_df
BodyOps ==
    { "worksheet.clear_basic_filter", "worksheet.freeze(rows=0, cols=0)",
      "worksheet.clear", "worksheet.update", "worksheet.format",
      "worksheet.freeze(rows=1)" }

IsBodyOp(c) == c.f \in BodyOps

\* a call of the body, and what it was given
What(c) == [f |-> c.f, x |-> c.x]

\* the column label of the table's last column
LastColumn(cols) ==
    CASE cols = 1 -> << "A" >>
      [] cols = 27 -> << "A", "A" >>

\* the remote calls a table of the given shape asks for, in order
ExpectedCalls(arg) ==
    << [f |-> "worksheet.clear_basic_filter", x |-> NoArg],
       [f |-> "worksheet.freeze(rows=0, cols=0)", x |-> NoArg],
       [f |-> "worksheet.clear", x |-> NoArg],
       [f |-> "worksheet.update",
        x |-> [id |-> 0, top |-> "A1", col |-> LastColumn(arg.cols), rows |-> arg.rows + 1]] >>
    \o (IF arg.rows >= 1
            THEN << [f |-> "worksheet.format",
                     x |-> [id |-> 0, top |-> "A2", col |-> LastColumn(arg.cols),
                            rows |-> arg.rows + 1]] >>
            ELSE << >>)
    \o << [f |-> "worksheet.freeze(rows=1)", x |-> NoArg] >>

----------------------------------------------------------------------------
(* Properties of _number_to_column *)

\* the place of a letter in the alphabet, 1 for "A"
LetterValue(ch) == CHOOSE i \in 1..26 : Letters[i] = ch

\* the number a label stands for in bijective base 26
RECURSIVE LabelValue(_)
LabelValue(label) ==
    IF label = << >> THEN 0
    ELSE 26 * LabelValue(SubSeq(label, 1, Len(label) - 1))
             + LetterValue(label[Len(label)])

RECURSIVE Power26(_)
Power26(k) == IF k = 0 THEN 1 ELSE 26 * Power26(k - 1)

\* the column number the call is to convert: n, or n + 1 with start_at_0
Asked == conv.n0 + (IF conv.start_at_0 THEN 1 ELSE 0)

\* C20: for a column number of 1 or more _number_to_column returns its
\* bijective base-26 label: the label is not empty, made of the letters A
\* to Z, and stands for that number and no other (so different numbers have
\* different labels; 1 is A, 26 is Z, 27 is AA); with start_at_0 the label
\* of n is the label of n + 1 without it; and the loop ends, n falling at
\* each pass while what is left of n and the letters found still make up
\* the number asked.
C20_BijectiveBase26 ==
    /\ conv.pc = "while"
          => /\ conv.n >= 0
             /\ conv.n * Power26(Len(conv.result)) + LabelValue(conv.result) = Asked
    /\ (conv.pc = "done" /\ Asked >= 1)
          => /\ conv.result # << >>
             /\ \A i \in DOMAIN conv.result : \E j \in 1..26 : conv.result[i] = Letters[j]
             /\ LabelValue(conv.result) = Asked
             /\ Asked = 1 => conv.result = << "A" >>
             /\ Asked = 26 => conv.result = << "Z" >>
             /\ Asked = 27 => conv.result = << "A", "A" >>
             /\ conv.start_at_0 => conv.result = number_to_column(conv.n0 + 1, FALSE)

\* 703 converted to AAA, and 27 counted from 0 to AB
C20_Witness ==
    /\ conv.pc = "done"
    /\ \/ conv.n0 = 703 /\ ~conv.start_at_0 /\ conv.result = << "A", "A", "A" >>
       \/ conv.n0 = 27 /\ conv.start_at_0 /\ conv.result = << "A", "B" >>

====
